---- MODULE Spec2Model ----
(***************************************************************************)
(* The two question-batch runners of the repository: the single-shot       *)
(* runner (src/math/test.py) and the chained runner (src/scripts/cot.py).  *)
(* Strings are sequences of code points, so that sorting, suffix tests,    *)
(* splitext, strip and the regular expressions are computed as Python      *)
(* computes them.                                                          *)
(***************************************************************************)
EXTENDS Integers, Sequences, FiniteSets, TLC

\* ------------------------------------------------------------------ bounds

\* Most files of the questions directory.
MaxFiles == 2

\* Most changes of the inference endpoint's condition during one run.
MaxFlips == 1

\* Most pieces a text of the text specification is built from.
MaxPieces == 3

\* Longest elapsed time of one inference call, in seconds.
MaxElapsed == 1

\* ------------------------------------------------------------ code points

Chr ==
  [nl |-> 10, sp |-> 32, dash |-> 45, dot |-> 46, lt |-> 60, gt |-> 62,
   tick |-> 96]

\* str.strip() with no argument removes the characters of str.isspace().
IsSpace(c) == c \in {9, 10, 11, 12, 13, 28, 29, 30, 31, 32, 133, 160}

\* The class [a-zA-Z0-9].
IsAlnum(c) == (c \in 48..57) \/ (c \in 65..90) \/ (c \in 97..122)

\* ------------------------------------------------------ string primitives

\* s[p:].startswith(pat), p counted from 1.
StartsAt(s, p, pat) ==
  /\ p >= 1
  /\ p + Len(pat) - 1 <= Len(s)
  /\ \A k \in 1..Len(pat) : s[p + k - 1] = pat[k]

\* str.endswith
EndsWith(s, suffix) ==
  /\ Len(suffix) <= Len(s)
  /\ StartsAt(s, Len(s) - Len(suffix) + 1, suffix)

\* Python's order of str: by code point, a proper prefix first.
StrLess(a, b) ==
  \E k \in 1..(Len(b)) :
    /\ k <= Len(a) + 1
    /\ \A j \in 1..(k - 1) : a[j] = b[j]
    /\ (k = Len(a) + 1 \/ a[k] < b[k])

\* str.strip()
Strip(s) ==
  LET keep == {i \in 1..Len(s) : ~IsSpace(s[i])}
  IN  IF keep = {} THEN <<>>
      ELSE SubSeq(s, CHOOSE i \in keep : \A j \in keep : i <= j,
                     CHOOSE i \in keep : \A j \in keep : j <= i)

\* sorted(seq, key=...) of Python: ascending by key, stable. keys[i] is the
\* key of seq[i].
StableSort(seq, keys) ==
  LET n == Len(seq)
      Rank(i) == Cardinality({j \in 1..n : StrLess(keys[j], keys[i])})
                 + Cardinality({j \in 1..(i - 1) : keys[j] = keys[i]}) + 1
  IN  [r \in 1..n |-> seq[CHOOSE i \in 1..n : Rank(i) = r]]

\* os.path.splitext(filename)[0] for a name with no directory separator:
\* cut at the last dot, unless only dots precede it.
SplitextRoot(filename) ==
  LET dots == {i \in 1..Len(filename) : filename[i] = Chr.dot}
  IN  IF dots = {} THEN filename
      ELSE LET d == CHOOSE i \in dots : \A j \in dots : j <= i
           IN  IF \E j \in 1..(d - 1) : filename[j] # Chr.dot
               THEN SubSeq(filename, 1, d - 1)
               ELSE filename

\* ------------------------------------------------------ regular expressions

Fence == <<96, 96, 96>>

Indent == <<32, 32, 32, 32>>

\* The three patterns of preprocess_markdown, each as the index of the last
\* character of the match that starts at p, or 0 when none starts there.

\* ```[a-zA-Z0-9]*\n[\s\S]*?\n```
\* The greedy class run cannot give back a character to \n, so the tag ends
\* at the first non-alphanumeric; the lazy body ends at the first \n```
\* after the newline that closes the opening line.
FenceMatchEnd(s, p) ==
  IF ~StartsAt(s, p, Fence) THEN 0
  ELSE LET after == {q \in (p + 3)..Len(s) : ~IsAlnum(s[q])}
       IN  IF after = {} THEN 0
           ELSE LET q == CHOOSE i \in after : \A j \in after : i <= j
                IN  IF s[q] # Chr.nl THEN 0
                    ELSE LET close == {r \in (q + 1)..Len(s) :
                                          /\ s[r] = Chr.nl
                                          /\ StartsAt(s, r + 1, Fence)}
                         IN  IF close = {} THEN 0
                             ELSE (CHOOSE r \in close :
                                     \A j \in close : r <= j) + 3

\* (?m)^    .*$
\* ^ is the start of the text or just after a newline; .* runs to the end
\* of the line, where $ holds.
IndentMatchEnd(s, p) ==
  IF ~(StartsAt(s, p, Indent) /\ (p = 1 \/ s[p - 1] = Chr.nl)) THEN 0
  ELSE LET nls == {q \in (p + 4)..Len(s) : s[q] = Chr.nl}
       IN  IF nls = {} THEN Len(s)
           ELSE (CHOOSE q \in nls : \A j \in nls : q <= j) - 1

\* <[^>]*>
TagMatchEnd(s, p) ==
  IF ~StartsAt(s, p, <<60>>) THEN 0
  ELSE LET gts == {q \in (p + 1)..Len(s) : s[q] = Chr.gt}
       IN  IF gts = {} THEN 0
           ELSE CHOOSE q \in gts : \A j \in gts : q <= j

MatchEnd(pattern, s, p) ==
  CASE pattern = "fence"  -> FenceMatchEnd(s, p)
    [] pattern = "indent" -> IndentMatchEnd(s, p)
    [] pattern = "tag"    -> TagMatchEnd(s, p)

\* re.sub(pattern, '', s) from position p on: the leftmost match is dropped
\* and the scan goes on after it; positions and anchors are those of s.
RECURSIVE ReSubFrom(_, _, _)
ReSubFrom(pattern, s, p) ==
  IF p > Len(s) THEN <<>>
  ELSE LET e == MatchEnd(pattern, s, p)
       IN  IF e > 0 THEN ReSubFrom(pattern, s, e + 1)
           ELSE <<s[p]>> \o ReSubFrom(pattern, s, p + 1)

ReSub(pattern, s) == ReSubFrom(pattern, s, 1)

\* preprocess_markdown(text, strip_codeblocks, strip_html)
preprocess_markdown(text, strip_codeblocks, strip_html) ==
  IF ~strip_codeblocks /\ ~strip_html THEN text
  ELSE LET t1 == IF strip_codeblocks
                 THEN ReSub("indent", ReSub("fence", text))
                 ELSE text
       IN  IF strip_html THEN ReSub("tag", t1) ELSE t1

\* A loader that preprocesses whether or not --preprocess was given.
QuestionTextAlways(raw, preprocess, strip_codeblocks, strip_html) ==
  preprocess_markdown(Strip(raw), strip_codeblocks, strip_html)

\* The text a loader stores for a file: f.read().strip(), preprocessed when
\* preprocessing is enabled.
QuestionText(raw, preprocess, strip_codeblocks, strip_html) ==
  IF preprocess
  THEN preprocess_markdown(Strip(raw), strip_codeblocks, strip_html)
  ELSE Strip(raw)

\* ------------------------------------------------------------ environment

\* Names a questions directory may hold: "a.txt", "a.md", "a-b.txt", "c.py".
NameSet ==
  {<<97, 46, 116, 120, 116>>, <<97, 46, 109, 100>>,
   <<97, 45, 98, 46, 116, 120, 116>>, <<99, 46, 112, 121>>}

\* What each file holds: a.txt " 2+2=?\n", a.md "<b>x</b>\n    y",
\* a-b.txt "Fr?", c.py "x=1".
FileContent(name) ==
  CASE name = <<97, 46, 116, 120, 116>> -> <<32, 50, 43, 50, 61, 63, 10>>
    [] name = <<97, 46, 109, 100>> ->
         <<60, 98, 62, 120, 60, 47, 98, 62, 10, 32, 32, 32, 32, 121>>
    [] name = <<97, 45, 98, 46, 116, 120, 116>> -> <<70, 114, 63>>
    [] OTHER -> <<120, 61, 49>>

\* The orders os.listdir may return the names of a directory in.
Listings(d) ==
  {l \in [1..Cardinality(d) -> d] : \A x \in d : \E k \in 1..Cardinality(d) : l[k] = x}

\* Command lines of the run specification: the three preprocessing switches.
ArgSet ==
  {[preprocess |-> FALSE, strip_codeblocks |-> TRUE, strip_html |-> TRUE],
   [preprocess |-> TRUE, strip_codeblocks |-> TRUE, strip_html |-> TRUE]}

AllArgs == [preprocess : BOOLEAN, strip_codeblocks : BOOLEAN, strip_html : BOOLEAN]

\* What the endpoint does when it is not answering: a 200 reply without a
\* 'response' field, a non-200 reply, a refused connection, a timeout.
Outages == {"nofield", "status", "refused", "timeout"}

\* The stub endpoint answers a prompt with the prompt reversed.
Reverse(s) == [k \in 1..Len(s) |-> s[Len(s) + 1 - k]]

\* "Error: "
ErrorPrefix == <<69, 114, 114, 111, 114, 58, 32>>

IsErrorString(s) == StartsAt(s, 1, ErrorPrefix)

\* Texts of the text specification: up to MaxPieces pieces, each one of
\* "```", "\n", "a", " ", "    ", "<", ">".
Pieces == {Fence, <<10>>, <<97>>, <<32>>, Indent, <<60>>, <<62>>}

RECURSIVE Concat(_)
Concat(ss) == IF ss = <<>> THEN <<>> ELSE Head(ss) \o Concat(Tail(ss))

Texts == UNION {{Concat(ps) : ps \in [1..k -> Pieces]} : k \in 0..MaxPieces}

\* The state of a file of the output directory: absent, complete (data is
\* what was serialized) or partial (cut short); run tells this run's
\* writes from an earlier run's.
Absent == [state |-> "absent", data |-> <<>>, run |-> "none"]

Earlier(id) ==
  [state |-> "complete", data |-> <<[question_id |-> id]>>, run |-> "earlier"]

\* ------------------------------------------------------------------ state

VARIABLES
  mode,                 \* "single" (test.py) or "chained" (cot.py)
  args,                 \* the preprocessing switches of the command line
  dirExists,            \* the questions directory exists
  dir,                  \* the names in the questions directory
  outDirExists,         \* the output directory exists
  outage,               \* what the endpoint does when it is not up
  up,                   \* the endpoint answers
  flips,                \* changes of the endpoint's condition so far
  pc,                   \* where the script is
  availabilityChecks,   \* requests to the model-listing endpoint
  questions,            \* the loader's return value
  i,                    \* index of the current question, from 1
  response,             \* the variable 'response' of the loop body
  iteration_responses,  \* the chain of the current question (chained)
  iteration,            \* passes of the inner loop done (chained)
  elapsed,              \* processing time of the current question (single)
  results,              \* the list 'results'
  outFiles,             \* <id>_result.json, by id
  allResults,           \* all_results.json
  calls,                \* log of the inference calls: prompt, response
  writeLog,             \* log of the files written completely
  error,                \* the exception that ended the run, or "none"
  reported,             \* what the last lines of output say
  exitStatus,           \* the exit status, -1 while running
  tRaw,                 \* text specification: the content of a file
  tText,                \* text specification: the loader's text for it
  tPre,                 \* text specification: preprocess_markdown(tRaw)
  tState                \* text specification: "input", "loaded", "preprocessed"

envVars == <<mode, args, dirExists, dir, outage>>

runVars ==
  <<outDirExists, up, flips, pc, availabilityChecks, questions, i, response,
    iteration_responses, iteration, elapsed, results, outFiles, allResults,
    calls, writeLog, error, reported, exitStatus>>

textVars == <<tRaw, tText, tPre, tState>>

vars == <<envVars, runVars, textVars>>

Ids == {SplitextRoot(n) : n \in NameSet}

\* ------------------------------------------------------------- operations

\* filename.endswith('.txt') or filename.endswith('.md')
IsQuestionFile(filename) ==
  EndsWith(filename, <<46, 116, 120, 116>>) \/ EndsWith(filename, <<46, 109, 100>>)

\* The loop of both loaders over sorted(os.listdir(questions_dir)): one
\* question per matching name, in the order of the sorted names.
LoadedQuestions(listing, a) ==
  LET names   == StableSort(listing, listing)
      matched == SelectSeq(names, IsQuestionFile)
  IN  [k \in 1..Len(matched) |->
         [id   |-> SplitextRoot(matched[k]),
          text |-> QuestionText(FileContent(matched[k]), a.preprocess,
                                a.strip_codeblocks, a.strip_html),
          file |-> matched[k]]]

\* A loader without its 'if not questions' check.
read_without_empty_check(exists, listing, a) ==
  IF ~exists THEN [raised |-> "FileNotFoundError", questions |-> <<>>]
  ELSE [raised |-> "none", questions |-> LoadedQuestions(listing, a)]

\* A loader that takes a missing directory for an empty one and returns.
read_missing_as_empty(exists, listing, a) ==
  IF ~exists THEN [raised |-> "none", questions |-> <<>>]
  ELSE LET qs == LoadedQuestions(listing, a)
       IN  IF qs = <<>> THEN [raised |-> "ValueError", questions |-> <<>>]
           ELSE [raised |-> "none", questions |-> qs]

\* read_question_files of the single-shot runner: the questions, or the
\* exception raised.
read_question_files(exists, listing, a) ==
  IF ~exists THEN [raised |-> "FileNotFoundError", questions |-> <<>>]
  ELSE LET qs == LoadedQuestions(listing, a)
       IN  IF qs = <<>> THEN [raised |-> "ValueError", questions |-> <<>>]
           ELSE [raised |-> "none", questions |-> qs]

\* read_questions of the chained runner: as above, then sorted by id.
read_questions(exists, listing, a) ==
  IF ~exists THEN [raised |-> "FileNotFoundError", questions |-> <<>>]
  ELSE LET qs == LoadedQuestions(listing, a)
       IN  IF qs = <<>> THEN [raised |-> "ValueError", questions |-> <<>>]
           ELSE [raised |-> "none",
                 questions |-> StableSort(qs, [k \in 1..Len(qs) |-> qs[k].id])]

\* requests.post(...) and what comes back: an exception, or a reply with its
\* status code and body; a 200 reply of the stub carries the prompt reversed
\* in its 'response' field, unless the field is missing.
requests_post(condition, prompt) ==
  CASE condition = "up" ->
         [exception |-> "none", message |-> <<>>, status_code |-> 200,
          status_text |-> <<50, 48, 48>>, has_response |-> TRUE,
          text |-> Reverse(prompt)]
    [] condition = "nofield" ->
         [exception |-> "none", message |-> <<>>, status_code |-> 200,
          status_text |-> <<50, 48, 48>>, has_response |-> FALSE,
          text |-> <<>>]
    [] condition = "status" ->
         \* 500, body "busy"
         [exception |-> "none", message |-> <<>>, status_code |-> 500,
          status_text |-> <<53, 48, 48>>, has_response |-> FALSE,
          text |-> <<98, 117, 115, 121>>]
    [] condition = "refused" ->
         [exception |-> "ConnectionError", message |-> <<>>, status_code |-> 0,
          status_text |-> <<>>, has_response |-> FALSE, text |-> <<>>]
    [] condition = "timeout" ->
         \* "Read timed out."
         [exception |-> "ReadTimeout",
          message |-> <<82, 101, 97, 100, 32, 116, 105, 109, 101, 100, 32,
                        111, 117, 116, 46>>,
          status_code |-> 0, status_text |-> <<>>, has_response |-> FALSE,
          text |-> <<>>]

\* "Error: Could not connect to Ollama. Make sure Ollama is running."
CouldNotConnect ==
  <<69, 114, 114, 111, 114, 58, 32, 67, 111, 117, 108, 100, 32, 110, 111, 116,
    32, 99, 111, 110, 110, 101, 99, 116, 32, 116, 111, 32, 79, 108, 108, 97,
    109, 97, 46, 32, 77, 97, 107, 101, 32, 115, 117, 114, 101, 32, 79, 108,
    108, 97, 109, 97, 32, 105, 115, 32, 114, 117, 110, 110, 105, 110, 103,
    46>>

\* "Error: Received status code "
ReceivedStatusCode ==
  <<69, 114, 114, 111, 114, 58, 32, 82, 101, 99, 101, 105, 118, 101, 100, 32,
    115, 116, 97, 116, 117, 115, 32, 99, 111, 100, 101, 32>>

\* A client whose handler of the connection error raises it again.
query_raising(condition, prompt) ==
  LET r == requests_post(condition, prompt)
  IN  IF r.exception = "ConnectionError"
      THEN [raised |-> "ConnectionError", value |-> <<>>]
      ELSE IF r.exception # "none"
      THEN [raised |-> "none", value |-> ErrorPrefix \o r.message]
      ELSE IF r.status_code = 200
      THEN [raised |-> "none",
            value |-> IF r.has_response THEN r.text ELSE <<>>]
      ELSE [raised |-> "none",
            value |-> ReceivedStatusCode \o r.status_text \o <<58, 32>> \o r.text]

\* query_ollama: one POST; every failure comes back as an error string.
\* condition is what the endpoint does with this request.
query_ollama(condition, prompt) ==
  LET r == requests_post(condition, prompt)
  IN  IF r.exception = "ConnectionError"
      THEN [raised |-> "none", value |-> CouldNotConnect]
      ELSE IF r.exception # "none"
      THEN \* "Error: " + str(e)
           [raised |-> "none", value |-> ErrorPrefix \o r.message]
      ELSE IF r.status_code = 200
      THEN \* response.json().get('response', '')
           [raised |-> "none",
            value |-> IF r.has_response THEN r.text ELSE <<>>]
      ELSE [raised |-> "none",
            value |-> ReceivedStatusCode \o r.status_text \o <<58, 32>> \o r.text]

\* for _ in range(5)
Iterations == 5

\* A chain that sends the question again on every pass.
ChainPromptFromQuestion(question_text, last_response) == question_text

\* The prompt of the next call of the chain: the variable 'response', which
\* holds the question text before the first call and the last completion
\* after it.
ChainPrompt(question_text, last_response) == last_response

\* The Result Record of the single-shot runner.
SingleResult(q, resp, time) ==
  [question_id |-> q.id, question_text |-> q.text, response |-> resp,
   processing_time_seconds |-> time, model |-> "llama3.2",
   temperature |-> "0.7", max_tokens |-> 1000, system_prompt |-> "None"]

\* The Iteration Record of the chained runner.
ChainedResult(q, chain) ==
  [question_id |-> q.id, question_text |-> q.text, responses |-> chain,
   model |-> "llama3.2", temperature |-> "0.7", max_tokens |-> 1000,
   system_prompt |-> "None"]

\* results.insert(0, result)
PrependResult(rs, r) == <<r>> \o rs

\* results.append(result)
AppendResult(rs, r) == Append(rs, r)

\* with open(path, 'w') as f: json.dump(data, f): open() truncates the file,
\* json.dump writes it piece by piece. outcome is what the file system does:
\* "ok", "open_fails" (nothing touched) or "write_fails" (after truncation).
WriteFile(old, data, outcome) ==
  CASE outcome = "ok" -> [state |-> "complete", data |-> data, run |-> "this"]
    [] outcome = "open_fails" -> old
    [] outcome = "write_fails" -> [state |-> "partial", data |-> <<>>, run |-> "this"]

WriteOutcomes == {"ok", "open_fails", "write_fails"}

\* __main__ without its try/except: a traceback and exit status 1.
main_uncaught(err) ==
  [reported |-> [kind |-> "traceback", what |-> err], exitStatus |-> 1]

\* The try/except Exception of __main__: the error is printed and the script
\* runs off its end.
main_except(err) ==
  [reported |-> [kind |-> "error", what |-> err], exitStatus |-> 0]

\* An exception reaches __main__: the run is over.
Fail(err) ==
  /\ pc' = "exited"
  /\ error' = err
  /\ reported' = main_except(err).reported
  /\ exitStatus' = main_except(err).exitStatus

\* The top of the loop body for question k.
BeginQuestion(qs, k) ==
  /\ i' = k
  /\ response' = IF mode = "chained" THEN qs[k].text ELSE <<>>
  /\ iteration_responses' = IF mode = "chained" THEN <<qs[k].text>> ELSE <<>>
  /\ iteration' = 0
  /\ elapsed' = 0

\* The final summary of __main__: sum(...) / len(results). The single-shot
\* runner sums the processing times; the chained runner sums the last element
\* of each record's 'responses', a text, starting from the integer 0.
RECURSIVE SumTimes(_)
SumTimes(rs) ==
  IF rs = <<>> THEN 0
  ELSE Head(rs).processing_time_seconds + SumTimes(Tail(rs))

\* A summary that finds a number in every record of either runner.
AverageOfNumbers(m, rs) ==
  IF Len(rs) = 0 THEN [raised |-> "ZeroDivisionError", total |-> 0]
  ELSE [raised |-> "none", total |-> 0]

AverageTime(m, rs) ==
  IF m = "chained" /\ rs # <<>> THEN [raised |-> "TypeError", total |-> 0]
  ELSE IF Len(rs) = 0 THEN [raised |-> "ZeroDivisionError", total |-> 0]
  ELSE [raised |-> "none", total |-> SumTimes(rs)]

\* ---------------------------------------------------------------- actions

loopVars == <<i, response, iteration_responses, iteration, elapsed>>

endVars == <<error, reported, exitStatus>>

Condition == IF up THEN "up" ELSE outage

Init ==
  /\ mode \in {"single", "chained"}
  /\ args \in ArgSet
  /\ dirExists \in BOOLEAN
  /\ dir \in {d \in SUBSET NameSet : Cardinality(d) <= MaxFiles}
  /\ (~dirExists => dir = {})
  /\ outDirExists \in BOOLEAN
  /\ outage \in Outages
  /\ up \in BOOLEAN
  /\ flips = 0
  /\ pc = "main"
  /\ availabilityChecks = 0
  /\ questions = <<>>
  /\ i = 0
  /\ response = <<>>
  /\ iteration_responses = <<>>
  /\ iteration = 0
  /\ elapsed = 0
  /\ results = <<>>
  /\ outFiles = [id \in Ids |-> IF outDirExists THEN Earlier(id) ELSE Absent]
  /\ allResults = IF outDirExists THEN Earlier(<<>>) ELSE Absent
  /\ calls = <<>>
  /\ writeLog = <<>>
  /\ error = "none"
  /\ reported = [kind |-> "none"]
  /\ exitStatus = -1
  /\ tRaw = <<>>
  /\ tText = <<>>
  /\ tPre = <<>>
  /\ tState = "unused"

\* __main__ up to the first question: the advisory model check (single-shot
\* only), the output directory, the loader.
Setup ==
  /\ pc = "main"
  /\ availabilityChecks' = IF mode = "single" THEN 1 ELSE 0
  /\ outDirExists' = TRUE
  /\ \E listing \in Listings(dir) :
       LET r == IF mode = "single"
                THEN read_question_files(dirExists, listing, args)
                ELSE read_questions(dirExists, listing, args)
       IN  IF r.raised # "none"
           THEN Fail(r.raised) /\ UNCHANGED <<questions, loopVars>>
           ELSE /\ questions' = r.questions
                /\ UNCHANGED endVars
                /\ IF Len(r.questions) = 0
                   THEN pc' = "save_all" /\ UNCHANGED loopVars
                   ELSE pc' = "query" /\ BeginQuestion(r.questions, 1)
  /\ UNCHANGED <<envVars, textVars, up, flips, results, outFiles, allResults,
                 calls, writeLog>>

\* One call of query_ollama: the only call of a question in the single-shot
\* runner, one pass of 'for _ in range(5)' in the chained runner.
Query ==
  /\ pc = "query"
  /\ LET q      == questions[i]
         prompt == IF mode = "single" THEN q.text
                   ELSE ChainPrompt(q.text, response)
         r      == query_ollama(Condition, prompt)
     IN  /\ calls' = Append(calls, [prompt |-> prompt, response |-> r.value,
                                    condition |-> Condition])
         /\ IF r.raised # "none"
            THEN Fail(r.raised) /\ UNCHANGED loopVars
            ELSE /\ response' = r.value
                 /\ UNCHANGED <<endVars, i>>
                 /\ IF mode = "single"
                    THEN /\ \E t \in 0..MaxElapsed : elapsed' = t
                         /\ pc' = "save"
                         /\ UNCHANGED <<iteration_responses, iteration>>
                    ELSE /\ iteration_responses' = Append(iteration_responses, r.value)
                         /\ iteration' = iteration + 1
                         /\ pc' = IF iteration + 1 >= Iterations THEN "save" ELSE "query"
                         /\ UNCHANGED elapsed
  /\ UNCHANGED <<envVars, textVars, outDirExists, up, flips, availabilityChecks,
                 questions, results, outFiles, allResults, writeLog>>

\* The rest of the loop body: the record is built, appended to 'results' and
\* written to <id>_result.json.
SaveResult ==
  /\ pc = "save"
  /\ LET q      == questions[i]
         result == IF mode = "single" THEN SingleResult(q, response, elapsed)
                   ELSE ChainedResult(q, iteration_responses)
     IN  /\ results' = AppendResult(results, result)
         /\ \E outcome \in WriteOutcomes :
              /\ outFiles' = [outFiles EXCEPT ![q.id] = WriteFile(@, <<result>>, outcome)]
              /\ IF outcome = "ok"
                 THEN /\ writeLog' = Append(writeLog, [kind |-> "result", id |-> q.id])
                      /\ UNCHANGED endVars
                      /\ IF i < Len(questions)
                         THEN pc' = "query" /\ BeginQuestion(questions, i + 1)
                         ELSE pc' = "save_all" /\ UNCHANGED loopVars
                 ELSE Fail("OSError") /\ UNCHANGED <<writeLog, loopVars>>
  /\ UNCHANGED <<envVars, textVars, outDirExists, up, flips, availabilityChecks,
                 questions, allResults, calls>>

\* After the loop: 'results' is written to all_results.json and returned.
SaveAll ==
  /\ pc = "save_all"
  /\ \E outcome \in WriteOutcomes :
       /\ allResults' = WriteFile(allResults, results, outcome)
       /\ IF outcome = "ok"
          THEN /\ writeLog' = Append(writeLog, [kind |-> "all", id |-> <<>>])
               /\ pc' = "summary"
               /\ UNCHANGED endVars
          ELSE Fail("OSError") /\ UNCHANGED writeLog
  /\ UNCHANGED <<envVars, textVars, outDirExists, up, flips, availabilityChecks,
                 questions, loopVars, results, outFiles, calls>>

\* Back in __main__: the average is computed and printed.
Summary ==
  /\ pc = "summary"
  /\ LET a == AverageTime(mode, results)
     IN  IF a.raised # "none" THEN Fail(a.raised)
         ELSE /\ pc' = "exited"
              /\ reported' = [kind |-> "average", total |-> a.total,
                              count |-> Len(results)]
              /\ exitStatus' = 0
              /\ UNCHANGED error
  /\ UNCHANGED <<envVars, textVars, outDirExists, up, flips, availabilityChecks,
                 questions, loopVars, results, outFiles, allResults, calls,
                 writeLog>>

\* The endpoint goes down or comes back between two calls.
EndpointFlips ==
  /\ pc = "query"
  /\ flips < MaxFlips
  /\ up' = ~up
  /\ flips' = flips + 1
  /\ UNCHANGED <<envVars, textVars, outDirExists, pc, availabilityChecks,
                 questions, loopVars, results, outFiles, allResults, calls,
                 writeLog, endVars>>

Next == Setup \/ Query \/ SaveResult \/ SaveAll \/ Summary \/ EndpointFlips

Spec == Init /\ [][Next]_vars

\* ------------------------------------------------- the text specification

\* A loader reads one file, whatever it holds and whatever the switches are.
InitText ==
  /\ mode = "single"
  /\ args \in AllArgs
  /\ dirExists = TRUE
  /\ dir = {}
  /\ outDirExists = TRUE
  /\ outage = "refused"
  /\ up = TRUE
  /\ flips = 0
  /\ pc = "idle"
  /\ availabilityChecks = 0
  /\ questions = <<>>
  /\ i = 0
  /\ response = <<>>
  /\ iteration_responses = <<>>
  /\ iteration = 0
  /\ elapsed = 0
  /\ results = <<>>
  /\ outFiles = [id \in Ids |-> Absent]
  /\ allResults = Absent
  /\ calls = <<>>
  /\ writeLog = <<>>
  /\ error = "none"
  /\ reported = [kind |-> "none"]
  /\ exitStatus = -1
  /\ tRaw \in Texts
  /\ tText = <<>>
  /\ tPre = <<>>
  /\ tState = "input"

\* question_text = f.read().strip(), then the optional preprocessing.
LoadText ==
  /\ tState = "input"
  /\ tText' = QuestionText(tRaw, args.preprocess, args.strip_codeblocks,
                           args.strip_html)
  /\ tState' = "loaded"
  /\ UNCHANGED <<envVars, runVars, tRaw, tPre>>

\* preprocess_markdown called on the text as it is.
PreprocessText ==
  /\ tState = "input"
  /\ tPre' = preprocess_markdown(tRaw, args.strip_codeblocks, args.strip_html)
  /\ tState' = "preprocessed"
  /\ UNCHANGED <<envVars, runVars, tRaw, tText>>

NextText == LoadText \/ PreprocessText

SpecText == InitText /\ [][NextText]_vars

\* ------------------------------------------------------------------ claims

\* The loader has returned its questions.
Loaded == pc \in {"query", "save", "save_all", "summary"} \/
          (pc = "exited" /\ error \notin {"FileNotFoundError", "ValueError"})

\* The .txt and .md files of the questions directory.
QuestionFiles == {n \in dir : IsQuestionFile(n)}

\* run_test or run_iterations has returned its results to __main__.
Returned == pc = "summary" \/
            (pc = "exited" /\ error \in {"none", "TypeError", "ZeroDivisionError"})

Written(kind) == SelectSeq(writeLog, LAMBDA w : w.kind = kind)

\* C1: for a directory with n >= 1 .txt/.md files, the loader of either
\* runner returns exactly n questions, sorted by identifier, whatever order
\* the file system lists the names in.
C1_LoaderSortedById ==
  (dirExists /\ QuestionFiles # {} /\ pc # "main") =>
    /\ Loaded
    /\ Len(questions) = Cardinality(QuestionFiles)
    /\ \A k \in 1..(Len(questions) - 1) :
         ~StrLess(questions[k + 1].id, questions[k].id)

\* C2: no two questions returned by the loader, and no two records of the
\* run, have the same identifier.
C2_IdentifiersUnique ==
  /\ \A j, k \in 1..Len(questions) :
       j # k => questions[j].id # questions[k].id
  /\ \A j, k \in 1..Len(results) :
       j # k => results[j].question_id # results[k].question_id

\* C3: after a completed single-shot run over a non-empty question set, each
\* question has its own file <id>_result.json, which holds that question's
\* text and a completion; there are as many files as questions.
C3_OneFilePerQuestion ==
  (mode = "single" /\ pc = "exited" /\ error = "none" /\ questions # <<>>) =>
    /\ \A k \in 1..Len(questions) :
         LET f == outFiles[questions[k].id]
         IN  /\ f.state = "complete" /\ f.run = "this"
             /\ Len(f.data) = 1
             /\ f.data[1].question_text = questions[k].text
             /\ f.data[1].response \in Seq(Nat)
    /\ Cardinality({id \in Ids : outFiles[id].run = "this"}) = Len(questions)

\* C4: in the chained runner every record's 'responses' has six elements,
\* the first is the question text, and element k+1 is what the inference
\* call with element k as its prompt returned; each question gets exactly
\* five calls, whatever they return.
C4_ChainOfSix ==
  mode = "chained" =>
    /\ \A j \in 1..Len(results) :
         LET chain == results[j].responses
         IN  /\ Len(chain) = 6
             /\ chain[1] = questions[j].text
             /\ results[j].question_text = questions[j].text
             /\ \A k \in 1..5 :
                  /\ calls[5 * (j - 1) + k].prompt = chain[k]
                  /\ calls[5 * (j - 1) + k].response = chain[k + 1]
    /\ Len(calls) = 5 * Len(results)
                    + (IF pc \in {"query", "save"} THEN iteration ELSE 0)
    /\ (pc = "query" => iteration < 5)
    /\ (pc = "save" => iteration = 5)
    /\ (Returned => Len(results) = Len(questions))

\* Two records are complete and the endpoint both answered and failed.
C4_Witness ==
  /\ mode = "chained"
  /\ Len(results) = 2
  /\ \E a, b \in 1..Len(calls) :
       /\ calls[a].condition = "up"
       /\ IsErrorString(calls[b].response)

\* C5: when the questions directory does not exist the run aborts with no
\* inference call, and no file of the output directory is created or
\* modified.
C5_MissingDirWritesNothing ==
  ~dirExists =>
    /\ calls = <<>>
    /\ writeLog = <<>>
    /\ \A id \in Ids : outFiles[id].run # "this"
    /\ allResults.run # "this"
    /\ pc \in {"main", "exited"}
    /\ (pc = "exited" => error = "FileNotFoundError")

\* The run has aborted on the missing directory, over an earlier run's files.
C5_Witness ==
  /\ ~dirExists
  /\ pc = "exited"
  /\ allResults = Earlier(<<>>)
  /\ \A id \in Ids : outFiles[id] = Earlier(id)

\* Every call so far failed: refused, timed out or a non-200 status.
AllCallsFailed ==
  \A k \in 1..Len(calls) : calls[k].condition \in {"refused", "timeout", "status"}

SetupError == ~dirExists \/ QuestionFiles = {}

\* C7 as stated: a setup error ends the run at once, is reported, no question
\* is processed, and the process ends with a failure exit status.
C7_SetupErrorExitsAbnormally ==
  (SetupError /\ pc # "main") =>
    /\ pc = "exited"
    /\ reported.kind = "error"
    /\ calls = <<>> /\ results = <<>>
    /\ exitStatus # 0

\* C7 as amended: a setup error ends the run at once, the error is printed,
\* no question is processed and nothing is written, and the script ends with
\* exit status 0.
C7_SetupErrorReported ==
  (SetupError /\ pc # "main") =>
    /\ pc = "exited"
    /\ error = (IF dirExists THEN "ValueError" ELSE "FileNotFoundError")
    /\ reported = [kind |-> "error", what |-> error]
    /\ questions = <<>> /\ calls = <<>> /\ results = <<>> /\ writeLog = <<>>
    /\ exitStatus = 0

\* The run has ended on a directory that holds a file, but no .txt or .md.
C7_Witness ==
  /\ pc = "exited"
  /\ dir # {}
  /\ QuestionFiles = {}
  /\ error = "ValueError"

\* C8: no file of the output directory is ever left partially written, be it
\* a question's file or the aggregate.
C8_AllOrNothing ==
  /\ \A id \in Ids : outFiles[id].state # "partial"
  /\ allResults.state # "partial"

\* C9: all_results.json is written at most once, and once when the runner
\* returns; by then every question's file has been written, in loader order,
\* and the aggregate holds one record per question in that order; no
\* inference call for a question is made before the file of the question
\* before it is written.
C9_AggregateOnceAtEnd ==
  LET perQuestion == IF mode = "single" THEN 1 ELSE 5
  IN  /\ Len(Written("all")) <= 1
      /\ (Returned => Len(Written("all")) = 1)
      /\ (allResults.run = "this" /\ allResults.state = "complete")
           => Len(Written("all")) = 1
      /\ Len(Written("all")) = 1 =>
           /\ writeLog[Len(writeLog)].kind = "all"
           /\ Len(Written("result")) = Len(questions)
           /\ allResults.state = "complete" /\ allResults.run = "this"
           /\ Len(allResults.data) = Len(questions)
           /\ \A k \in 1..Len(questions) :
                /\ writeLog[k] = [kind |-> "result", id |-> questions[k].id]
                /\ allResults.data[k].question_id = questions[k].id
                /\ allResults.data[k].question_text = questions[k].text
      /\ Len(calls) <= perQuestion * (Len(Written("result")) + 1)

\* A run over two questions of different identifiers has ended normally.
C9_Witness ==
  /\ pc = "exited"
  /\ mode = "single"
  /\ error = "none"
  /\ Len(questions) = 2
  /\ questions[1].id # questions[2].id
  /\ Len(Written("all")) = 1

\* t is raw without its leading and trailing whitespace.
IsTrimOf(t, raw) ==
  \E a \in 0..Len(raw) :
    /\ a + Len(t) <= Len(raw)
    /\ t = SubSeq(raw, a + 1, a + Len(t))
    /\ \A k \in (1..a) \cup ((a + Len(t) + 1)..Len(raw)) : IsSpace(raw[k])
    /\ (t # <<>> => ~IsSpace(t[1]) /\ ~IsSpace(t[Len(t)]))

\* C10: without --preprocess the loader's text is the trimmed file content,
\* whatever the strip switches are; and preprocess_markdown with neither
\* strip switch returns its input, also through the loader.
C10_NoPreprocessingIsTrim ==
  /\ (tState = "loaded" /\ ~args.preprocess) => IsTrimOf(tText, tRaw)
  /\ (tState = "loaded" /\ ~args.strip_codeblocks /\ ~args.strip_html)
       => IsTrimOf(tText, tRaw)
  /\ (tState = "preprocessed" /\ ~args.strip_codeblocks /\ ~args.strip_html)
       => tPre = tRaw

\* A file with a tag and surrounding whitespace was loaded without
\* --preprocess although both strip switches were given.
C10_Witness ==
  /\ tState = "loaded"
  /\ ~args.preprocess /\ args.strip_codeblocks /\ args.strip_html
  /\ tText # tRaw
  /\ preprocess_markdown(tText, TRUE, TRUE) # tText

\* A fenced block starts at p: ``` and a tag of letters and digits up to the
\* end of the line, then a body of whole lines, possibly none, then ``` at
\* the start of a line.
FencedBlockAt(s, p) ==
  /\ StartsAt(s, p, Fence)
  /\ \E q \in (p + 3)..Len(s) :
       /\ \A k \in (p + 3)..(q - 1) : IsAlnum(s[k])
       /\ s[q] = Chr.nl
       /\ \E r \in (q + 1)..Len(s) : s[r - 1] = Chr.nl /\ StartsAt(s, r, Fence)

HasFencedBlock(s) == \E p \in 1..Len(s) : FencedBlockAt(s, p)

\* C11: with --preprocess and --strip_codeblocks the loader's text holds no
\* fenced block, whatever its language tag and its body, the empty body
\* included.
C11_FencedBlocksRemoved ==
  (tState = "loaded" /\ args.preprocess /\ args.strip_codeblocks) =>
    ~HasFencedBlock(tText)

\* The questions directory exists and holds no .txt or .md file.
EmptyQuestionSet == dirExists /\ QuestionFiles = {}

\* C12 as stated: a single-shot run over an empty question set returns no
\* record, writes the aggregate and then fails dividing by zero.
C12_EmptySetDividesByZero ==
  (mode = "single" /\ EmptyQuestionSet /\ pc = "exited") =>
    /\ results = <<>>
    /\ allResults.run = "this"
    /\ error = "ZeroDivisionError"

\* C12 as amended: in the single-shot runner the average is never taken over
\* zero records: an empty question set ends the run in the loader with
\* ValueError, before the aggregate is written, and a runner that returns
\* returns one record per question, at least one.
C12_NeverDividesByZero ==
  mode = "single" =>
    /\ error # "ZeroDivisionError"
    /\ (pc \in {"save_all", "summary"} \/ Returned) =>
         /\ Len(results) >= 1
         /\ Len(results) = Len(questions)
    /\ (EmptyQuestionSet /\ pc # "main") =>
         /\ pc = "exited"
         /\ error = "ValueError"
         /\ results = <<>>
         /\ allResults.run # "this"
    /\ (pc = "exited" /\ error = "none") =>
         reported = [kind |-> "average", total |-> SumTimes(results),
                     count |-> Len(results)]

\* A single-shot run over an existing, empty directory has ended.
C12_Witness ==
  /\ mode = "single"
  /\ dirExists
  /\ dir = {}
  /\ pc = "exited"
  /\ error = "ValueError"

====
